---- MODULE Spec2Model ----
(***************************************************************************)
(* Model of the ProcessManager of "OS Process Manager.cpp": the process    *)
(* store (processMap), the root pointer, the pid counter, the ready queue  *)
(* and the I/O queue, with one action per public operation.                *)
(*                                                                         *)
(* A Process* is modelled by the pid of the Process object it was taken    *)
(* from; nullptr is NullPtr.  A pointer whose pid is no longer a key of    *)
(* processMap is dangling: the unique_ptr that owned the object was erased *)
(* and the object freed.  Following a dangling pointer is undefined        *)
(* behaviour; the model gives it two outcomes, the access going unnoticed  *)
(* (the freed block is still readable and the erase finds nothing that     *)
(* belongs to a live process) and the program aborting at the access.      *)
(***************************************************************************)
EXTENDS Integers, Sequences, FiniteSets, TLC

VARIABLES
    pidCounter,   \* ProcessManager::pidCounter
    root,         \* ProcessManager::root (a pointer)
    processMap,   \* ProcessManager::processMap: live pid -> Process
    readyQueue,   \* ProcessManager::readyQueue (sequence of pointers, head first)
    ioQueue,      \* ProcessManager::ioQueue
    crashed,      \* TRUE once the program has aborted inside an operation
    call,         \* the operation main() invoked last, with its arguments
    out,          \* what that operation wrote to cout
    created,      \* history: the pids handed out, in creation order
    rt,           \* history: snapshot taken before a requestIO(p); completeIO(p) pair
    scen,         \* history: how far the calls so far follow the scenario of the spec
    designated,   \* history: the pids created with no resolved parent while root was null
    entryOrder    \* history: the members of each queue, by the time they last entered it

vars == <<pidCounter, root, processMap, readyQueue, ioQueue, crashed, call, out,
          created, rt, scen, designated, entryOrder>>

progVars == <<pidCounter, root, processMap, readyQueue, ioQueue>>

(***************************************************************************)
(* Bounds of the model and constants of the program.                       *)
(***************************************************************************)
MaxProcs == 3
MaxStack == 1

NullPtr == 0
NoParent == -1
FirstPid == 1

Names == {"init", "child"}
Funcs == {"main"}

\* pid arguments main() may read from cin: 0 is never a pid, the others may be
\* not yet created, live, or terminated
PidInputs == 0..MaxProcs
ParentInputs == {NoParent} \cup PidInputs

(***************************************************************************)
(* Messages written to cout.                                               *)
(***************************************************************************)
MsgCreated == "Created process: PID="
MsgCalled == "called function"
MsgNotFound == "Process not found."
MsgMoved == "moved to I/O queue."
MsgNotInReady == "Process not in ready queue."
MsgCompleted == "completed I/O and returned to ready queue."
MsgNotInIO == "Process not found in I/O queue."
MsgTerminated == "terminated."
MsgState == "--- Ready Queue ---"
MsgNoTree == "(No processes created yet)"
MsgNone == ""

Line(indent, pid, name) == [indent |-> indent, pid |-> pid, name |-> name]
NoTreeLine == Line(0, NullPtr, MsgNoTree)

Output(msg, pid) ==
    [msg |-> msg, pid |-> pid, arg |-> MsgNone, ready |-> <<>>, io |-> <<>>, tree |-> <<>>]

Call(op, pid, arg) == [op |-> op, pid |-> pid, arg |-> arg]

(***************************************************************************)
(* Process and the helpers of the class.                                   *)
(***************************************************************************)
Process(pid, name, parent) ==
    [pid |-> pid, name |-> name, parent |-> parent, children |-> <<>>, callStack |-> <<>>]

Live == DOMAIN processMap

Range(s) == {s[i] : i \in DOMAIN s}

\* mutant: the new child goes to the front of the vector
addChild_Front(proc, child) == [proc EXCEPT !.children = <<child>> \o @]

\* Process::addChild
addChild(proc, child) == [proc EXCEPT !.children = Append(@, child)]

\* processMap[k] = v
MapPut(pm, k, v) == [p \in DOMAIN pm \cup {k} |-> IF p = k THEN v ELSE pm[p]]

\* processMap.erase(k)
MapErase(pm, k) == [p \in DOMAIN pm \ {k} |-> pm[p]]

\* mutant: temp is a stack, what is kept comes back in reverse
RECURSIVE removeFromQueueLoop_Reverses(_, _, _)
removeFromQueueLoop_Reverses(q, temp, p) ==
    IF q = <<>> THEN temp
    ELSE LET current == Head(q) IN
         IF current # p
         THEN removeFromQueueLoop_Reverses(Tail(q), <<current>> \o temp, p)
         ELSE removeFromQueueLoop_Reverses(Tail(q), temp, p)

\* ProcessManager::removeFromQueue: drain q, keep what is not p
RECURSIVE removeFromQueueLoop(_, _, _)
removeFromQueueLoop(q, temp, p) ==
    IF q = <<>> THEN temp
    ELSE LET current == Head(q) IN
         IF current # p THEN removeFromQueueLoop(Tail(q), Append(temp, current), p)
         ELSE removeFromQueueLoop(Tail(q), temp, p)

removeFromQueue(q, p) == removeFromQueueLoop(q, <<>>, p)

\* mutant: the terminated process stays in its parent's child list
eraseRemove_Nothing(siblings, p) == siblings

\* siblings.erase(std::remove(begin, end, p), end)
RECURSIVE eraseRemove(_, _)
eraseRemove(siblings, p) ==
    IF siblings = <<>> THEN <<>>
    ELSE IF Head(siblings) = p THEN eraseRemove(Tail(siblings), p)
    ELSE <<Head(siblings)>> \o eraseRemove(Tail(siblings), p)

\* ProcessManager::displayQueue: one line per entry, head first
RECURSIVE displayQueue(_)
displayQueue(q) ==
    IF q = <<>> THEN <<>>
    ELSE LET p == Head(q) IN
         <<Line(0, processMap[p].pid, processMap[p].name)>> \o displayQueue(Tail(q))

\* Process::displayHierarchy: the process, then each child's subtree in the
\* order of the children vector, two more spaces of indent per level
RECURSIVE displayHierarchy(_, _)
RECURSIVE displayChildren(_, _)
displayHierarchy(p, indent) ==
    IF p \notin Live THEN <<Line(indent, p, MsgNone)>>
    ELSE <<Line(indent, processMap[p].pid, processMap[p].name)>>
         \o displayChildren(processMap[p].children, indent + 2)
displayChildren(cs, indent) ==
    IF cs = <<>> THEN <<>>
    ELSE displayHierarchy(Head(cs), indent) \o displayChildren(Tail(cs), indent)

\* the pointers displayHierarchy follows from p, p included
RECURSIVE Followed(_)
Followed(p) ==
    IF p \notin Live THEN {p}
    ELSE {p} \cup UNION {Followed(processMap[p].children[i]) :
                         i \in DOMAIN processMap[p].children}

(***************************************************************************)
(* The operations.  Each lower-case operator is the body of the method of  *)
(* that name: the values it leaves in the fields it assigns, and its       *)
(* output.  terminateProcess gives the set of its possible results: it has *)
(* two on a process whose parent was freed, one otherwise.                 *)
(***************************************************************************)

\* mutant: the lowest pid that is free, so a terminated pid is handed out again
AllocPid_LowestFree ==
    CHOOSE p \in FirstPid..pidCounter :
        p \notin DOMAIN processMap /\ \A q \in FirstPid..(p - 1) : q \in DOMAIN processMap

\* pidCounter++ in createProcess: the pid the new process gets
AllocPid == pidCounter

\* mutant: with no root, the parent of the new process becomes the root
createProcess_RootFromParent(name, parentPID) ==
    LET parent == IF parentPID # NoParent /\ parentPID \in DOMAIN processMap
                  THEN processMap[parentPID].pid
                  ELSE NullPtr
        rawPtr == AllocPid
        proc == Process(rawPtr, name, parent)
        linked == IF parent # NullPtr
                  THEN [processMap EXCEPT ![parent] = addChild(@, rawPtr)]
                  ELSE processMap
    IN  [pidCounter |-> pidCounter + 1,
         root       |-> IF root # NullPtr THEN root
                        ELSE IF parent = NullPtr THEN rawPtr ELSE parent,
         processMap |-> MapPut(linked, proc.pid, proc),
         readyQueue |-> Append(readyQueue, rawPtr),
         out        |-> Output(MsgCreated, rawPtr)]

\* mutant: only the first process ever created can become the root
createProcess_RootOnlyOnce(name, parentPID) ==
    LET parent == IF parentPID # NoParent /\ parentPID \in DOMAIN processMap
                  THEN processMap[parentPID].pid
                  ELSE NullPtr
        rawPtr == AllocPid
        proc == Process(rawPtr, name, parent)
        linked == IF parent # NullPtr
                  THEN [processMap EXCEPT ![parent] = addChild(@, rawPtr)]
                  ELSE processMap
    IN  [pidCounter |-> pidCounter + 1,
         root       |-> IF parent = NullPtr /\ root = NullPtr /\ pidCounter = FirstPid
                        THEN rawPtr ELSE root,
         processMap |-> MapPut(linked, proc.pid, proc),
         readyQueue |-> Append(readyQueue, rawPtr),
         out        |-> Output(MsgCreated, rawPtr)]

\* mutant: the test of root is missing, every process created without a parent
\* becomes the root
createProcess_RootOverwritten(name, parentPID) ==
    LET parent == IF parentPID # NoParent /\ parentPID \in DOMAIN processMap
                  THEN processMap[parentPID].pid
                  ELSE NullPtr
        rawPtr == AllocPid
        proc == Process(rawPtr, name, parent)
        linked == IF parent # NullPtr
                  THEN [processMap EXCEPT ![parent] = addChild(@, rawPtr)]
                  ELSE processMap
    IN  [pidCounter |-> pidCounter + 1,
         root       |-> IF parent = NullPtr THEN rawPtr ELSE root,
         processMap |-> MapPut(linked, proc.pid, proc),
         readyQueue |-> Append(readyQueue, rawPtr),
         out        |-> Output(MsgCreated, rawPtr)]

\* ProcessManager::createProcess
createProcess(name, parentPID) ==
    LET parent == IF parentPID # NoParent /\ parentPID \in DOMAIN processMap
                  THEN processMap[parentPID].pid
                  ELSE NullPtr
        rawPtr == AllocPid
        proc == Process(rawPtr, name, parent)
        linked == IF parent # NullPtr
                  THEN [processMap EXCEPT ![parent] = addChild(@, rawPtr)]
                  ELSE processMap
    IN  [pidCounter |-> pidCounter + 1,
         root       |-> IF parent = NullPtr /\ root = NullPtr THEN rawPtr ELSE root,
         processMap |-> MapPut(linked, proc.pid, proc),
         readyQueue |-> Append(readyQueue, rawPtr),
         out        |-> Output(MsgCreated, rawPtr)]

\* mutant: the name goes under the stack instead of on top of it
callFunction_PushBottom(pid, funcName) ==
    IF pid \in DOMAIN processMap
    THEN [processMap |-> [processMap EXCEPT ![pid].callStack = <<funcName>> \o @],
          out        |-> [Output(MsgCalled, pid) EXCEPT !.arg = funcName]]
    ELSE [processMap |-> processMap, out |-> Output(MsgNotFound, pid)]

\* ProcessManager::callFunction
callFunction(pid, funcName) ==
    IF pid \in DOMAIN processMap
    THEN [processMap |-> [processMap EXCEPT ![pid].callStack = Append(@, funcName)],
          out        |-> [Output(MsgCalled, pid) EXCEPT !.arg = funcName]]
    ELSE [processMap |-> processMap, out |-> Output(MsgNotFound, pid)]

\* mutant: the else is missing, p is pushed on both queues
RECURSIVE requestIOLoop_KeepsMoved(_, _, _, _, _)
requestIOLoop_KeepsMoved(rq, newQueue, ioq, p, found) ==
    IF rq = <<>> THEN [newQueue |-> newQueue, ioQueue |-> ioq, found |-> found]
    ELSE LET front == Head(rq) IN
         IF front = p
         THEN requestIOLoop_KeepsMoved(Tail(rq), Append(newQueue, front),
                                       Append(ioq, front), p, TRUE)
         ELSE requestIOLoop_KeepsMoved(Tail(rq), Append(newQueue, front), ioq, p, found)

\* mutant: p enters the I/O queue at its head
RECURSIVE requestIOLoop_PushFront(_, _, _, _, _)
requestIOLoop_PushFront(rq, newQueue, ioq, p, found) ==
    IF rq = <<>> THEN [newQueue |-> newQueue, ioQueue |-> ioq, found |-> found]
    ELSE LET front == Head(rq) IN
         IF front = p
         THEN requestIOLoop_PushFront(Tail(rq), newQueue, <<front>> \o ioq, p, TRUE)
         ELSE requestIOLoop_PushFront(Tail(rq), Append(newQueue, front), ioq, p, found)

\* the while loop of requestIO: drain the ready queue, push p on the I/O
\* queue, everything else on newQueue
RECURSIVE requestIOLoop(_, _, _, _, _)
requestIOLoop(rq, newQueue, ioq, p, found) ==
    IF rq = <<>> THEN [newQueue |-> newQueue, ioQueue |-> ioq, found |-> found]
    ELSE LET front == Head(rq) IN
         IF front = p
         THEN requestIOLoop(Tail(rq), newQueue, Append(ioq, front), p, TRUE)
         ELSE requestIOLoop(Tail(rq), Append(newQueue, front), ioq, p, found)

\* mutant: readyQueue = newQueue is done only when p was found, so a failed
\* request leaves the ready queue drained
requestIO_RestoreOnlyIfFound(pid) ==
    IF pid \in DOMAIN processMap
    THEN LET p == processMap[pid].pid
             r == requestIOLoop(readyQueue, <<>>, ioQueue, p, FALSE)
         IN  [readyQueue |-> IF r.found THEN r.newQueue ELSE <<>>,
              ioQueue    |-> r.ioQueue,
              out        |-> Output(IF r.found THEN MsgMoved ELSE MsgNotInReady, pid)]
    ELSE [readyQueue |-> readyQueue, ioQueue |-> ioQueue, out |-> Output(MsgNotFound, pid)]

\* ProcessManager::requestIO
requestIO(pid) ==
    IF pid \in DOMAIN processMap
    THEN LET p == processMap[pid].pid
             r == requestIOLoop(readyQueue, <<>>, ioQueue, p, FALSE)
         IN  [readyQueue |-> r.newQueue,
              ioQueue    |-> r.ioQueue,
              out        |-> Output(IF r.found THEN MsgMoved ELSE MsgNotInReady, pid)]
    ELSE [readyQueue |-> readyQueue, ioQueue |-> ioQueue, out |-> Output(MsgNotFound, pid)]

\* mutant: the loop breaks at the match, the entries behind it are lost
RECURSIVE completeIOLoop_BreakOnFound(_, _, _, _, _)
completeIOLoop_BreakOnFound(ioq, newIOQueue, rq, pid, found) ==
    IF ioq = <<>> THEN [newIOQueue |-> newIOQueue, readyQueue |-> rq, found |-> found]
    ELSE LET front == Head(ioq) IN
         IF processMap[front].pid = pid
         THEN [newIOQueue |-> newIOQueue, readyQueue |-> Append(rq, front), found |-> TRUE]
         ELSE completeIOLoop_BreakOnFound(Tail(ioq), Append(newIOQueue, front), rq, pid, found)

\* mutant: the process returns to the head of the ready queue
RECURSIVE completeIOLoop_PushFront(_, _, _, _, _)
completeIOLoop_PushFront(ioq, newIOQueue, rq, pid, found) ==
    IF ioq = <<>> THEN [newIOQueue |-> newIOQueue, readyQueue |-> rq, found |-> found]
    ELSE LET front == Head(ioq) IN
         IF processMap[front].pid = pid
         THEN completeIOLoop_PushFront(Tail(ioq), newIOQueue, <<front>> \o rq, pid, TRUE)
         ELSE completeIOLoop_PushFront(Tail(ioq), Append(newIOQueue, front), rq, pid, found)

\* the while loop of completeIO: drain the I/O queue, push the entries whose
\* pid field equals pid on the ready queue, everything else on newIOQueue
RECURSIVE completeIOLoop(_, _, _, _, _)
completeIOLoop(ioq, newIOQueue, rq, pid, found) ==
    IF ioq = <<>> THEN [newIOQueue |-> newIOQueue, readyQueue |-> rq, found |-> found]
    ELSE LET front == Head(ioq) IN
         IF processMap[front].pid = pid
         THEN completeIOLoop(Tail(ioq), newIOQueue, Append(rq, front), pid, TRUE)
         ELSE completeIOLoop(Tail(ioq), Append(newIOQueue, front), rq, pid, found)

\* ProcessManager::completeIO
completeIO(pid) ==
    LET r == completeIOLoop(ioQueue, <<>>, readyQueue, pid, FALSE)
    IN  [readyQueue |-> r.readyQueue,
         ioQueue    |-> r.newIOQueue,
         out        |-> Output(IF r.found THEN MsgCompleted ELSE MsgNotInIO, pid)]

\* mutant: the children of the terminated process are handed to its parent
terminateProcess_ReparentsChildren(pid) ==
    IF pid \notin DOMAIN processMap
    THEN {[readyQueue |-> readyQueue, ioQueue |-> ioQueue, processMap |-> processMap,
           root |-> root, crashed |-> FALSE, out |-> Output(MsgNotFound, pid)]}
    ELSE LET p == processMap[pid].pid
             parent == processMap[p].parent
             moved == processMap[p].children
             relinked == [q \in DOMAIN processMap |->
                            IF q = parent
                            THEN [processMap[q] EXCEPT
                                     !.children = eraseRemove(@, p) \o moved]
                            ELSE IF processMap[q].parent = p
                            THEN [processMap[q] EXCEPT !.parent = parent]
                            ELSE processMap[q]]
         IN  {[readyQueue |-> removeFromQueue(readyQueue, p),
               ioQueue |-> removeFromQueue(ioQueue, p),
               processMap |-> MapErase(relinked, pid),
               root |-> IF p = root THEN NullPtr ELSE root,
               crashed |-> FALSE, out |-> Output(MsgTerminated, pid)]}

\* mutant: the root pointer is not cleared when the root is terminated
terminateProcess_KeepsRoot(pid) ==
    IF pid \notin DOMAIN processMap
    THEN {[readyQueue |-> readyQueue, ioQueue |-> ioQueue, processMap |-> processMap,
           root |-> root, crashed |-> FALSE, out |-> Output(MsgNotFound, pid)]}
    ELSE LET p == processMap[pid].pid
             parent == processMap[p].parent
             unlinked == IF parent # NullPtr /\ parent \in DOMAIN processMap
                         THEN [processMap EXCEPT
                                  ![parent].children = eraseRemove(@, p)]
                         ELSE processMap
         IN  {[readyQueue |-> removeFromQueue(readyQueue, p),
               ioQueue |-> removeFromQueue(ioQueue, p),
               processMap |-> MapErase(unlinked, pid),
               root |-> root,
               crashed |-> FALSE, out |-> Output(MsgTerminated, pid)]}

\* mutant: when the root is terminated its first child is promoted to root
terminateProcess_PromotesChild(pid) ==
    IF pid \notin DOMAIN processMap
    THEN {[readyQueue |-> readyQueue, ioQueue |-> ioQueue, processMap |-> processMap,
           root |-> root, crashed |-> FALSE, out |-> Output(MsgNotFound, pid)]}
    ELSE LET p == processMap[pid].pid
             parent == processMap[p].parent
             unlinked == IF parent # NullPtr /\ parent \in DOMAIN processMap
                         THEN [processMap EXCEPT
                                  ![parent].children = eraseRemove(@, p)]
                         ELSE processMap
         IN  {[readyQueue |-> removeFromQueue(readyQueue, p),
               ioQueue |-> removeFromQueue(ioQueue, p),
               processMap |-> MapErase(unlinked, pid),
               root |-> IF p # root THEN root
                        ELSE IF processMap[p].children = <<>> THEN NullPtr
                        ELSE Head(processMap[p].children),
               crashed |-> FALSE, out |-> Output(MsgTerminated, pid)]}

\* mutant: removeFromQueue(ioQueue, p) is missing
terminateProcess_SkipsIOQueue(pid) ==
    IF pid \notin DOMAIN processMap
    THEN {[readyQueue |-> readyQueue, ioQueue |-> ioQueue, processMap |-> processMap,
           root |-> root, crashed |-> FALSE, out |-> Output(MsgNotFound, pid)]}
    ELSE LET p == processMap[pid].pid
             parent == processMap[p].parent
             unlinked == IF parent # NullPtr /\ parent \in DOMAIN processMap
                         THEN [processMap EXCEPT
                                  ![parent].children = eraseRemove(@, p)]
                         ELSE processMap
         IN  {[readyQueue |-> removeFromQueue(readyQueue, p),
               ioQueue |-> ioQueue,
               processMap |-> MapErase(unlinked, pid),
               root |-> IF p = root THEN NullPtr ELSE root,
               crashed |-> FALSE, out |-> Output(MsgTerminated, pid)]}

\* ProcessManager::terminateProcess.  p->parent is followed whenever it is not
\* null; when the parent was terminated before, that access is undefined.
terminateProcess(pid) ==
    IF pid \notin DOMAIN processMap
    THEN {[readyQueue |-> readyQueue, ioQueue |-> ioQueue, processMap |-> processMap,
           root |-> root, crashed |-> FALSE, out |-> Output(MsgNotFound, pid)]}
    ELSE LET p == processMap[pid].pid
             rq == removeFromQueue(readyQueue, p)
             ioq == removeFromQueue(ioQueue, p)
             parent == processMap[p].parent
             dangling == parent # NullPtr /\ parent \notin DOMAIN processMap
             unlinked == IF parent # NullPtr /\ ~dangling
                         THEN [processMap EXCEPT
                                  ![parent].children = eraseRemove(@, p)]
                         ELSE processMap
             done == [readyQueue |-> rq, ioQueue |-> ioq,
                      processMap |-> MapErase(unlinked, pid),
                      root |-> IF p = root THEN NullPtr ELSE root,
                      crashed |-> FALSE, out |-> Output(MsgTerminated, pid)]
             abort == [readyQueue |-> rq, ioQueue |-> ioq, processMap |-> processMap,
                       root |-> root, crashed |-> TRUE, out |-> Output(MsgNone, pid)]
         IN  IF dangling THEN {done, abort} ELSE {done}

\* ProcessManager::showState
showState ==
    [Output(MsgState, NullPtr) EXCEPT
        !.ready = displayQueue(readyQueue),
        !.io = displayQueue(ioQueue),
        !.tree = IF root # NullPtr THEN displayHierarchy(root, 0) ELSE <<NoTreeLine>>]

(***************************************************************************)
(* History variables.                                                      *)
(***************************************************************************)
Snapshot(stage, pid) ==
    [stage |-> stage, pid |-> pid, pidCounter |-> pidCounter, root |-> root,
     processMap |-> processMap, readyQueue |-> readyQueue, ioQueue |-> ioQueue]

NoSnapshot ==
    [stage |-> 0, pid |-> NullPtr, pidCounter |-> 0, root |-> NullPtr,
     processMap |-> <<>>, readyQueue |-> <<>>, ioQueue |-> <<>>]

\* the scenario of the spec's testable properties, as the calls main() makes
Scenario ==
    << Call("createProcess", NoParent, "init"),
       Call("createProcess", 1, "child"),
       Call("requestIO", 2, MsgNone),
       Call("completeIO", 2, MsgNone),
       Call("terminateProcess", 1, MsgNone) >>

\* scen = k in 1..5: the calls so far are exactly the first k of Scenario;
\* scen = 6: they are Scenario followed by showState calls only; -1: neither
ScenNext(c) ==
    IF scen \in 0..(Len(Scenario) - 1) /\ c = Scenario[scen + 1] THEN scen + 1
    ELSE IF scen \in {Len(Scenario), Len(Scenario) + 1} /\ c.op = "showState"
         THEN Len(Scenario) + 1
    ELSE -1

\* what every operation does to call, out and scen
Invoke(c, o) ==
    /\ ~crashed
    /\ call' = c
    /\ out' = o
    /\ scen' = ScenNext(c)

\* the members of a queue by time of entry, after a step that took the queue
\* from before to after: who left is dropped, who entered is the latest
HistoryOrder(order, before, after) ==
    LET Stays(x) == x \in Range(after)
        new == Range(after) \ Range(before)
    IN  IF new = {} THEN SelectSeq(order, Stays)
        ELSE SelectSeq(order, Stays) \o <<CHOOSE x \in new : \A y \in new : x <= y>>

\* what every operation does to designated and entryOrder, read off the call
\* and the queues before and after it
History ==
    /\ designated' =
          IF /\ call'.op = "createProcess"
             /\ root = NullPtr
             /\ (call'.pid = NoParent \/ call'.pid \notin Live)
          THEN Append(designated, out'.pid)
          ELSE designated
    /\ entryOrder' = [ready |-> HistoryOrder(entryOrder.ready, readyQueue, readyQueue'),
                      io    |-> HistoryOrder(entryOrder.io, ioQueue, ioQueue')]

(***************************************************************************)
(* The state machine: main() constructs the manager and then invokes one   *)
(* operation per menu choice, with arguments read from cin.                *)
(***************************************************************************)
Init ==
    /\ pidCounter = FirstPid
    /\ root = NullPtr
    /\ processMap = <<>>
    /\ readyQueue = <<>>
    /\ ioQueue = <<>>
    /\ crashed = FALSE
    /\ call = Call("none", NullPtr, MsgNone)
    /\ out = Output(MsgNone, NullPtr)
    /\ created = <<>>
    /\ rt = NoSnapshot
    /\ scen = 0
    /\ designated = <<>>
    /\ entryOrder = [ready |-> <<>>, io |-> <<>>]

CreateProcess(name, parentPID) ==
    /\ pidCounter <= MaxProcs
    /\ LET r == createProcess(name, parentPID) IN
       /\ Invoke(Call("createProcess", parentPID, name), r.out)
       /\ pidCounter' = r.pidCounter
       /\ root' = r.root
       /\ processMap' = r.processMap
       /\ readyQueue' = r.readyQueue
       /\ created' = Append(created, r.out.pid)
    /\ rt' = NoSnapshot
    /\ UNCHANGED <<ioQueue, crashed>>
    /\ History

CallFunction(pid, funcName) ==
    /\ pid \in DOMAIN processMap => Len(processMap[pid].callStack) < MaxStack
    /\ LET r == callFunction(pid, funcName) IN
       /\ Invoke(Call("callFunction", pid, funcName), r.out)
       /\ processMap' = r.processMap
    /\ rt' = NoSnapshot
    /\ UNCHANGED <<pidCounter, root, readyQueue, ioQueue, crashed, created>>
    /\ History

RequestIO(pid) ==
    /\ LET r == requestIO(pid) IN
       /\ Invoke(Call("requestIO", pid, MsgNone), r.out)
       /\ readyQueue' = r.readyQueue
       /\ ioQueue' = r.ioQueue
       /\ rt' = IF r.out.msg = MsgMoved THEN Snapshot(1, pid) ELSE NoSnapshot
    /\ UNCHANGED <<pidCounter, root, processMap, crashed, created>>
    /\ History

CompleteIO(pid) ==
    /\ LET r == completeIO(pid) IN
       /\ Invoke(Call("completeIO", pid, MsgNone), r.out)
       /\ readyQueue' = r.readyQueue
       /\ ioQueue' = r.ioQueue
    /\ rt' = IF rt.stage = 1 /\ rt.pid = pid THEN [rt EXCEPT !.stage = 2] ELSE NoSnapshot
    /\ UNCHANGED <<pidCounter, root, processMap, crashed, created>>
    /\ History

TerminateProcess(pid) ==
    /\ \E r \in terminateProcess(pid) :
       /\ Invoke(Call("terminateProcess", pid, MsgNone), r.out)
       /\ readyQueue' = r.readyQueue
       /\ ioQueue' = r.ioQueue
       /\ processMap' = r.processMap
       /\ root' = r.root
       /\ crashed' = r.crashed
    /\ rt' = NoSnapshot
    /\ UNCHANGED <<pidCounter, created>>
    /\ History

\* mutant: displayQueue drains the queues themselves, not copies of them
ShowState_DrainsQueues ==
    /\ Invoke(Call("showState", NullPtr, MsgNone), showState)
    /\ crashed' \in (IF root # NullPtr /\ ~(Followed(root) \subseteq Live)
                     THEN BOOLEAN ELSE {FALSE})
    /\ readyQueue' = <<>>
    /\ ioQueue' = <<>>
    /\ rt' = NoSnapshot
    /\ UNCHANGED <<pidCounter, root, processMap, created>>
    /\ History

ShowState ==
    /\ Invoke(Call("showState", NullPtr, MsgNone), showState)
    /\ crashed' \in (IF root # NullPtr /\ ~(Followed(root) \subseteq Live)
                     THEN BOOLEAN ELSE {FALSE})
    /\ rt' = NoSnapshot
    /\ UNCHANGED <<pidCounter, root, processMap, readyQueue, ioQueue, created>>
    /\ History

Next ==
    \/ \E name \in Names, parentPID \in ParentInputs : CreateProcess(name, parentPID)
    \/ \E pid \in PidInputs, funcName \in Funcs : CallFunction(pid, funcName)
    \/ \E pid \in PidInputs : RequestIO(pid)
    \/ \E pid \in PidInputs : CompleteIO(pid)
    \/ \E pid \in PidInputs : TerminateProcess(pid)
    \/ ShowState

Spec == Init /\ [][Next]_vars

(***************************************************************************)
(* The same program with call stacks that grow: two function names, and    *)
(* MaxCalls entries on all the stacks of the store together, so that a     *)
(* stack has earlier entries for a push to leave alone.  To keep the state *)
(* space finite within that, every process is created with the same name.  *)
(***************************************************************************)
MaxCalls == 2
CallFuncs == {"main", "helper"}

\* the entries on the call stacks of the processes of S, together
RECURSIVE StackEntries(_)
StackEntries(S) ==
    IF S = {} THEN 0
    ELSE LET p == CHOOSE x \in S : TRUE IN
         Len(processMap[p].callStack) + StackEntries(S \ {p})

CallFunctionLog(pid, funcName) ==
    /\ pid \in DOMAIN processMap => StackEntries(Live) < MaxCalls
    /\ LET r == callFunction(pid, funcName) IN
       /\ Invoke(Call("callFunction", pid, funcName), r.out)
       /\ processMap' = r.processMap
    /\ rt' = NoSnapshot
    /\ UNCHANGED <<pidCounter, root, readyQueue, ioQueue, crashed, created>>
    /\ History

NextCalls ==
    \/ \E parentPID \in ParentInputs : CreateProcess("init", parentPID)
    \/ \E pid \in PidInputs, funcName \in CallFuncs : CallFunctionLog(pid, funcName)
    \/ \E pid \in PidInputs : RequestIO(pid)
    \/ \E pid \in PidInputs : CompleteIO(pid)
    \/ \E pid \in PidInputs : TerminateProcess(pid)
    \/ ShowState

SpecCalls == Init /\ [][NextCalls]_vars

(***************************************************************************)
(* Vocabulary of the properties.                                           *)
(***************************************************************************)

\* the program is alive: no operation has aborted
Running == crashed = FALSE

\* how often p occurs in q
Occurrences(q, p) == Cardinality({i \in DOMAIN q : q[i] = p})

\* q with every occurrence of p taken out, the rest in the order they had
Without(q, p) == LET Keep(x) == x # p IN SelectSeq(q, Keep)

\* every pid created so far and no longer in the store
Terminated == Range(created) \ Live

(***************************************************************************)
(* C1: while the program runs, every live process occurs exactly once in   *)
(* the ready queue followed by the I/O queue (so in exactly one of them,   *)
(* once), and the queues hold no process that is not live.                 *)
(***************************************************************************)
C1_ExactlyOneQueue ==
    Running =>
        /\ \A p \in Live : Occurrences(readyQueue \o ioQueue, p) = 1
        /\ Range(readyQueue \o ioQueue) \subseteq Live

\* a process was just terminated while both queues still hold live processes
C1_Witness ==
    /\ call.op = "terminateProcess" /\ out.msg = MsgTerminated
    /\ readyQueue # <<>> /\ ioQueue # <<>>
    /\ Terminated # {}

(***************************************************************************)
(* C2: the registry never aborts, every operation is all-or-nothing, and   *)
(* the parent pointer terminateProcess follows, the child pointers         *)
(* showState follows and the entries of both queues are processes of the   *)
(* store -- also for terminateProcess(c) after c's parent was terminated.  *)
(***************************************************************************)
C2_TerminateAllOrNothing ==
    call'.op = "terminateProcess" =>
        \/ UNCHANGED progVars
        \/ /\ call'.pid \in Live
           /\ call'.pid \notin DOMAIN processMap'
           /\ call'.pid \notin Range(readyQueue') \cup Range(ioQueue')

C2_FollowedPointersLive ==
    /\ (call'.op = "terminateProcess" /\ call'.pid \in Live
            /\ processMap[call'.pid].parent # NullPtr)
        => processMap[call'.pid].parent \in Live
    /\ (call'.op = "showState" /\ root # NullPtr) => Followed(root) \subseteq Live
    /\ Range(readyQueue) \cup Range(ioQueue) \subseteq Live

C2_NeverCrashesNoPartialState ==
    [][crashed' = FALSE /\ C2_TerminateAllOrNothing /\ C2_FollowedPointersLive]_vars

(***************************************************************************)
(* C3: the k-th createProcess call assigns pid k: pids are handed out in   *)
(* increasing order from 1 and never twice, also when processes were       *)
(* terminated in between.                                                  *)
(***************************************************************************)
C3_PidsInCreationOrder ==
    /\ \A k \in DOMAIN created : created[k] = k
    /\ Live \subseteq Range(created)
    /\ call.op = "createProcess" => out.pid = Len(created)

\* the third process is created after an earlier one was terminated
C3_Witness ==
    /\ call.op = "createProcess" /\ out.pid = 3
    /\ Terminated # {}

(***************************************************************************)
(* C4: a failed operation changes nothing: callFunction, requestIO and     *)
(* terminateProcess on a pid that is not in the store, requestIO on a live *)
(* process outside the ready queue, and completeIO on a pid outside the    *)
(* I/O queue leave the counter, the store (with every parent, child list   *)
(* and call stack), the root and both queues as they were.                 *)
(***************************************************************************)
FailedCall(c) ==
    \/ c.op \in {"callFunction", "requestIO", "terminateProcess"} /\ c.pid \notin Live
    \/ c.op = "requestIO" /\ c.pid \in Live /\ c.pid \notin Range(readyQueue)
    \/ c.op = "completeIO" /\ c.pid \notin Range(ioQueue)

C4_FailedOperationIsNoOp ==
    [][FailedCall(call') =>
          /\ UNCHANGED progVars
          /\ crashed' = FALSE
          /\ out'.msg \in {MsgNotFound, MsgNotInReady, MsgNotInIO}]_vars

\* requestIO failed on a process waiting for I/O, with another process ready
\* and a call stack that is not empty
C4_Witness ==
    /\ call.op = "requestIO" /\ out.msg = MsgNotInReady
    /\ call.pid \in Range(ioQueue)
    /\ readyQueue # <<>>
    /\ \E p \in Live : processMap[p].callStack # <<>>

(***************************************************************************)
(* C5: requestIO(pid) on a live process of the ready queue takes exactly   *)
(* that process out of the ready queue, the others keeping their order,    *)
(* appends it behind the unchanged I/O queue and reports success; on a     *)
(* live process outside the ready queue it reports "not in ready queue",   *)
(* on a pid not in the store "not found".                                  *)
(***************************************************************************)
C5_RequestIO ==
    [][call'.op = "requestIO" =>
          LET pid == call'.pid IN
          IF pid \in Live /\ pid \in Range(readyQueue)
          THEN /\ readyQueue' = Without(readyQueue, pid)
               /\ Len(readyQueue') = Len(readyQueue) - 1
               /\ ioQueue' = Append(ioQueue, pid)
               /\ out' = Output(MsgMoved, pid)
          ELSE IF pid \in Live
          THEN out' = Output(MsgNotInReady, pid)
          ELSE out' = Output(MsgNotFound, pid)]_vars

\* a process from the middle of the ready queue was moved
C5_Witness ==
    /\ call.op = "requestIO" /\ out.msg = MsgMoved
    /\ rt.stage = 1
    /\ Len(rt.readyQueue) = 3 /\ rt.readyQueue[2] = call.pid
    /\ Len(readyQueue) = 2

(***************************************************************************)
(* C6: completeIO(pid) on a process of the I/O queue takes exactly that    *)
(* process out of the I/O queue, the others keeping their order, appends   *)
(* it behind the unchanged ready queue and reports success; for every      *)
(* other pid (never created, terminated, or ready) it reports "not found   *)
(* in I/O queue".                                                          *)
(***************************************************************************)
C6_CompleteIO ==
    [][call'.op = "completeIO" =>
          LET pid == call'.pid IN
          IF pid \in Range(ioQueue)
          THEN /\ ioQueue' = Without(ioQueue, pid)
               /\ Len(ioQueue') = Len(ioQueue) - 1
               /\ readyQueue' = Append(readyQueue, pid)
               /\ out' = Output(MsgCompleted, pid)
          ELSE out' = Output(MsgNotInIO, pid)]_vars

\* one of two waiting processes returned behind a process that was ready;
\* the other one still waits
C6_Witness ==
    /\ call.op = "completeIO" /\ out.msg = MsgCompleted
    /\ Len(ioQueue) = 1 /\ Len(readyQueue) = 2
    /\ readyQueue[2] = call.pid

(***************************************************************************)
(* C7: requestIO(p) directly followed by completeIO(p), p in the ready     *)
(* queue, leaves p at the tail of the ready queue behind the other members *)
(* in their old order, and the I/O queue, the store, the root and the      *)
(* counter as they were before the two calls.                              *)
(***************************************************************************)
C7_RequestThenComplete ==
    rt.stage = 2 =>
        /\ readyQueue = Append(Without(rt.readyQueue, rt.pid), rt.pid)
        /\ Len(readyQueue) = Len(rt.readyQueue)
        /\ ioQueue = rt.ioQueue
        /\ processMap = rt.processMap
        /\ root = rt.root
        /\ pidCounter = rt.pidCounter

\* the pair was applied to the head of a ready queue of two, with a process
\* waiting for I/O: p moved from the head to the tail
C7_Witness ==
    /\ rt.stage = 2
    /\ Len(rt.readyQueue) = 2 /\ rt.readyQueue[1] = rt.pid
    /\ rt.ioQueue # <<>>
    /\ readyQueue[2] = rt.pid

(***************************************************************************)
(* C8: terminateProcess(pid) on a live process takes it out of the one     *)
(* queue that held it, both queues otherwise keeping their order, takes it *)
(* out of its parent's child list, the siblings keeping their order, and   *)
(* deletes it from the store; terminateProcess on the same pid again       *)
(* reports not-found and changes nothing.                                  *)
(***************************************************************************)
C8_TerminateLive ==
    (call'.op = "terminateProcess" /\ call'.pid \in Live) =>
        LET p == call'.pid
            parent == processMap[p].parent
        IN  /\ p \notin DOMAIN processMap'
            /\ readyQueue' = Without(readyQueue, p)
            /\ ioQueue' = Without(ioQueue, p)
            /\ Len(readyQueue') + Len(ioQueue') = Len(readyQueue) + Len(ioQueue) - 1
            /\ parent \in Live =>
                  processMap'[parent].children = Without(processMap[parent].children, p)
            /\ out' = Output(MsgTerminated, p)

C8_TerminateAgain ==
    (call'.op = "terminateProcess" /\ call'.pid \in Terminated) =>
        /\ out' = Output(MsgNotFound, call'.pid)
        /\ UNCHANGED progVars

C8_Terminate == [][C8_TerminateLive /\ C8_TerminateAgain]_vars

(***************************************************************************)
(* C9: terminating the root clears the root pointer and nothing else of    *)
(* the hierarchy: every other process stays in the store with its parent,  *)
(* its children and its queue place, no child becomes root; from then on   *)
(* the root stays null until a createProcess sets it, and showState shows  *)
(* "no processes yet" for the tree whenever the root is null.  In the      *)
(* scenario create("init",-1), create("child",1), requestIO(2),            *)
(* completeIO(2) the ready queue is <<1, 2>>; after terminateProcess(1) it *)
(* is <<2>> and the root is null.                                          *)
(***************************************************************************)
C9_TerminateRoot ==
    (call'.op = "terminateProcess" /\ root # NullPtr /\ call'.pid = root) =>
        /\ root' = NullPtr
        /\ DOMAIN processMap' = Live \ {root}
        /\ \A c \in Live \ {root} : processMap'[c] = processMap[c]
        /\ readyQueue' = Without(readyQueue, root)
        /\ ioQueue' = Without(ioQueue, root)

C9_RootSetOnlyByCreate ==
    (root = NullPtr /\ root' # NullPtr) => call'.op = "createProcess"

C9_NoTreeShown ==
    (call.op = "showState" /\ root = NullPtr) => out.tree = <<NoTreeLine>>

C9_Scenario ==
    /\ scen = 4 => readyQueue = <<1, 2>> /\ ioQueue = <<>> /\ root = 1
    /\ scen \in {5, 6} =>
          /\ readyQueue = <<2>> /\ ioQueue = <<>>
          /\ root = NullPtr
          /\ Live = {2} /\ processMap[2].parent = 1
    /\ scen = 6 => out.tree = <<NoTreeLine>> /\ out.ready = <<Line(0, 2, "child")>>

C9_RootTermination ==
    /\ [](C9_NoTreeShown /\ C9_Scenario)
    /\ [][C9_TerminateRoot /\ C9_RootSetOnlyByCreate]_vars

\* the scenario was run to its end and showState was called after it
C9_Witness ==
    /\ scen = 6
    /\ call.op = "showState"
    /\ root = NullPtr /\ Live # {}

(***************************************************************************)
(* C10: each process follows CREATED -> READY <-> IO_WAIT -> TERMINATED.   *)
(* In every step the program survives: a process appears as READY, by a    *)
(* createProcess; it leaves READY only to IO_WAIT by requestIO on it or to *)
(* TERMINATED by terminateProcess on it; it leaves IO_WAIT only to READY   *)
(* by completeIO on it or to TERMINATED by terminateProcess on it; once    *)
(* TERMINATED it stays out of the store and of both queues, and            *)
(* callFunction, requestIO, completeIO and terminateProcess on it fail and *)
(* change nothing.                                                         *)
(***************************************************************************)
St(p) ==
    IF p \notin Range(created) /\ p \notin Live THEN "NONE"
    ELSE IF p \in Live /\ p \in Range(readyQueue) /\ p \notin Range(ioQueue) THEN "READY"
    ELSE IF p \in Live /\ p \in Range(ioQueue) /\ p \notin Range(readyQueue) THEN "IO_WAIT"
    ELSE IF p \notin Live /\ p \notin Range(readyQueue) \cup Range(ioQueue)
    THEN "TERMINATED"
    ELSE "OTHER"

C10_Step(p) ==
    /\ St(p)' # "OTHER"
    /\ St(p) = "NONE" /\ St(p)' # "NONE" =>
          St(p)' = "READY" /\ call'.op = "createProcess" /\ out'.pid = p
    /\ St(p) = "READY" /\ St(p)' # "READY" =>
          \/ St(p)' = "IO_WAIT" /\ call' = Call("requestIO", p, MsgNone)
          \/ St(p)' = "TERMINATED" /\ call' = Call("terminateProcess", p, MsgNone)
    /\ St(p) = "IO_WAIT" /\ St(p)' # "IO_WAIT" =>
          \/ St(p)' = "READY" /\ call' = Call("completeIO", p, MsgNone)
          \/ St(p)' = "TERMINATED" /\ call' = Call("terminateProcess", p, MsgNone)
    /\ St(p) = "TERMINATED" =>
          /\ St(p)' = "TERMINATED"
          /\ (call'.pid = p /\ call'.op \in {"callFunction", "requestIO",
                                             "completeIO", "terminateProcess"})
                => /\ UNCHANGED progVars
                   /\ out'.msg = IF call'.op = "completeIO" THEN MsgNotInIO
                                 ELSE MsgNotFound

C10_LifeCycle ==
    [][crashed' = FALSE => \A p \in FirstPid..MaxProcs : C10_Step(p)]_vars

\* completeIO on the pid of a terminated process failed, while other processes
\* are ready and waiting
C10_Witness ==
    /\ call.op = "completeIO" /\ out.msg = MsgNotInIO
    /\ call.pid \in Terminated
    /\ ioQueue # <<>> /\ readyQueue # <<>>

(***************************************************************************)
(* C11: createProcess succeeds for every name and parentId.  The new       *)
(* process goes to the tail of the ready queue, the queues being otherwise *)
(* unchanged; when parentId names a live process it gets that parent and   *)
(* goes to the end of the parent's child list, otherwise (-1, or no live   *)
(* process of that pid) it has no parent; it becomes the root exactly when *)
(* no parent was resolved and the root is null, else the root is kept.     *)
(***************************************************************************)
C11_CreateProcess ==
    [][call'.op = "createProcess" =>
          LET new == out'.pid
              parentPID == call'.pid
              resolved == parentPID # NoParent /\ parentPID \in Live
          IN  /\ out' = Output(MsgCreated, new)
              /\ crashed' = FALSE
              /\ new \notin Live
              /\ DOMAIN processMap' = Live \cup {new}
              /\ processMap'[new] =
                    [pid |-> new, name |-> call'.arg,
                     parent |-> IF resolved THEN parentPID ELSE NullPtr,
                     children |-> <<>>, callStack |-> <<>>]
              /\ \A q \in Live :
                    processMap'[q] =
                        IF resolved /\ q = parentPID
                        THEN [processMap[q] EXCEPT !.children = Append(@, new)]
                        ELSE processMap[q]
              /\ readyQueue' = Append(readyQueue, new)
              /\ ioQueue' = ioQueue
              /\ root' = IF ~resolved /\ root = NullPtr THEN new ELSE root]_vars

\* a second child was created under a live parent that is not the new process
C11_Witness ==
    /\ call.op = "createProcess" /\ out.msg = MsgCreated
    /\ call.pid \in Live
    /\ processMap[call.pid].children = <<2, out.pid>>
    /\ readyQueue[Len(readyQueue)] = out.pid

(***************************************************************************)
(* C12, as claimed: whenever createProcess is invoked while the root is    *)
(* null, the new process becomes the root.                                 *)
(***************************************************************************)
C12_RootWheneverNoRoot ==
    [][(call'.op = "createProcess" /\ root = NullPtr) => root' = out'.pid]_vars

(***************************************************************************)
(* C12, amended: whenever createProcess is invoked while the root is null  *)
(* and its parentId resolves to no live process, the new process becomes   *)
(* the root; with a resolved parent the root stays null; while a root is   *)
(* designated createProcess keeps it.  There is at most one root: the root *)
(* pointer is null or a live process without parent.                       *)
(***************************************************************************)
C12_RootIsLiveOrphan ==
    root # NullPtr => root \in Live /\ processMap[root].parent = NullPtr

C12_CreateSetsRoot ==
    call'.op = "createProcess" =>
        LET resolved == call'.pid # NoParent /\ call'.pid \in Live
        IN  /\ (root = NullPtr /\ ~resolved) => root' = out'.pid
            /\ (root = NullPtr /\ resolved) => root' = NullPtr
            /\ root # NullPtr => root' = root

C12_RootDesignation ==
    /\ []C12_RootIsLiveOrphan
    /\ [][C12_CreateSetsRoot]_vars

\* a new root was designated after the first root had been terminated
C12_Witness ==
    /\ call.op = "createProcess"
    /\ root = out.pid /\ root # FirstPid
    /\ FirstPid \in Terminated

(***************************************************************************)
(* C13, as claimed: a root is designated if and only if some process was   *)
(* created with no resolvable parent while no root was designated.         *)
(***************************************************************************)
C13_RootIffEverDesignated ==
    root # NullPtr <=> designated # <<>>

(***************************************************************************)
(* C13, amended: a root is designated if and only if the process created   *)
(* most recently with no resolvable parent while no root was designated is *)
(* still live, and then that process is the root.                          *)
(***************************************************************************)
C13_RootIffLastDesignatedLive ==
    /\ root # NullPtr <=>
          (designated # <<>> /\ designated[Len(designated)] \in Live)
    /\ root # NullPtr => root = designated[Len(designated)]

\* the root was terminated: a process had been designated, none is now,
\* and another process is still live
C13_Witness ==
    /\ call.op = "terminateProcess" /\ out.msg = MsgTerminated
    /\ root = NullPtr /\ designated # <<>>
    /\ Live # {}

(***************************************************************************)
(* C14: the parent relation is acyclic and well-founded by creation order. *)
(* Every parent reference of a live process is the pid of a process that   *)
(* was created before it (a strictly smaller pid, so no chain of parents   *)
(* returns to where it started) and that was live when the child was       *)
(* created; no operation changes the parent reference of a process.        *)
(***************************************************************************)
C14_ParentIsOlder ==
    \A p \in Live :
        LET parent == processMap[p].parent IN
        parent # NullPtr => parent \in Range(created) /\ parent < p

C14_ParentFixedAtCreation ==
    /\ \A p \in Live \cap DOMAIN processMap' :
          processMap'[p].parent = processMap[p].parent
    /\ \A p \in DOMAIN processMap' \ Live :
          processMap'[p].parent \in Live \cup {NullPtr}

C14_ParentRelation ==
    /\ []C14_ParentIsOlder
    /\ [][C14_ParentFixedAtCreation]_vars

\* a chain of three generations, the last one just created
C14_Witness ==
    /\ call.op = "createProcess" /\ out.pid = 3
    /\ Live = {1, 2, 3}
    /\ processMap[3].parent = 2 /\ processMap[2].parent = 1

(***************************************************************************)
(* C15: callFunction(pid, f) on a live process puts f on top of that       *)
(* process's call stack and changes nothing else: the entries below, the   *)
(* other processes, the queues, the root, the counter and every link stay. *)
(* No operation takes an entry off the stack of a process that stays live: *)
(* across every step the old stack is a prefix of the new one.             *)
(***************************************************************************)
C15_CallFunctionPushes ==
    call'.op = "callFunction" /\ call'.pid \in Live =>
        /\ DOMAIN processMap' = DOMAIN processMap
        /\ processMap'[call'.pid].callStack =
              Append(processMap[call'.pid].callStack, call'.arg)
        /\ \A p \in Live :
              /\ processMap'[p].pid = processMap[p].pid
              /\ processMap'[p].name = processMap[p].name
              /\ processMap'[p].parent = processMap[p].parent
              /\ processMap'[p].children = processMap[p].children
              /\ p # call'.pid => processMap'[p].callStack = processMap[p].callStack
        /\ UNCHANGED <<pidCounter, root, readyQueue, ioQueue>>
        /\ crashed' = FALSE

C15_StacksOnlyGrow ==
    \A p \in Live \cap DOMAIN processMap' :
        /\ Len(processMap[p].callStack) <= Len(processMap'[p].callStack)
        /\ SubSeq(processMap'[p].callStack, 1, Len(processMap[p].callStack))
              = processMap[p].callStack

C15_AppendOnlyLog == [][C15_CallFunctionPushes /\ C15_StacksOnlyGrow]_vars

\* a second, different name was just pushed on a stack, with another live
\* process around and a process waiting for I/O
C15_Witness ==
    /\ call.op = "callFunction" /\ call.pid \in Live
    /\ processMap[call.pid].callStack = <<"main", "helper">>
    /\ Cardinality(Live) >= 2
    /\ ioQueue # <<>>

(***************************************************************************)
(* C16: showState is read-only: the queues, the store (tree links and call *)
(* stacks with it), the root and the counter are after it what they were   *)
(* before.  Its report is the ready queue head to tail, the I/O queue head *)
(* to tail, and the pre-order traversal from the root with the children in *)
(* the order of the child list, or the one line "no processes yet".        *)
(***************************************************************************)
\* the report of queue q: one line per entry, in the order of the queue
C16_QueueReport(q) == [i \in DOMAIN q |-> Line(0, q[i], processMap[q[i]].name)]

\* the line above line i of t that line i hangs under: the nearest earlier
\* line with a smaller indent (0 if there is none)
C16_Above(t, i) ==
    LET above == {j \in 1..(i - 1) : t[j].indent < t[i].indent}
    IN  IF above = {} THEN 0 ELSE CHOOSE j \in above : \A k \in above : k <= j

\* t is the pre-order traversal from r, children in child-list order
C16_IsPreOrder(t, r) ==
    /\ t # <<>>
    /\ t[1].pid = r /\ t[1].indent = 0
    /\ \A i, j \in DOMAIN t : t[i].pid = t[j].pid => i = j
    /\ \A i \in DOMAIN t :
          /\ t[i].pid \in Live
          /\ t[i].name = processMap[t[i].pid].name
          /\ i > 1 =>
                LET a == C16_Above(t, i) IN
                /\ a # 0
                /\ t[i].indent = t[a].indent + 2
                /\ t[i].pid \in Range(processMap[t[a].pid].children)
          /\ LET cs == processMap[t[i].pid].children IN
             \A m \in DOMAIN cs :
                \E k \in DOMAIN t :
                   /\ k > i /\ t[k].pid = cs[m] /\ C16_Above(t, k) = i
                   /\ \A n \in DOMAIN cs : n < m =>
                         \E l \in DOMAIN t : l < k /\ t[l].pid = cs[n]

C16_ShowState ==
    call'.op = "showState" =>
        /\ UNCHANGED <<pidCounter, root, processMap, readyQueue, ioQueue>>
        /\ crashed' = FALSE
        /\ out'.ready = C16_QueueReport(readyQueue)
        /\ out'.io = C16_QueueReport(ioQueue)
        /\ out'.tree = <<NoTreeLine>> <=> root = NullPtr
        /\ root # NullPtr => C16_IsPreOrder(out'.tree, root)

C16_ShowStateReadOnly == [][C16_ShowState]_vars

\* a report with both queues occupied and a root with two children
C16_Witness ==
    /\ call.op = "showState"
    /\ readyQueue # <<>> /\ ioQueue # <<>>
    /\ Len(out.tree) = 3 /\ out.tree[2].indent = 2 /\ out.tree[3].indent = 2

(***************************************************************************)
(* C17: every process reached from the designated root by following child  *)
(* lists, the root included, is live, and is reached exactly once; so the  *)
(* tree section of a showState report names live processes only and names  *)
(* none of them twice.                                                     *)
(***************************************************************************)
\* the pids of the traversal from the root, in the order they are visited
C17_Visited ==
    IF root = NullPtr THEN <<>>
    ELSE LET t == displayHierarchy(root, 0) IN [i \in DOMAIN t |-> t[i].pid]

C17_ReachableLiveOnce ==
    /\ Range(C17_Visited) \subseteq Live
    /\ root # NullPtr => Followed(root) \subseteq Live
    /\ \A i, j \in DOMAIN C17_Visited : C17_Visited[i] = C17_Visited[j] => i = j
    /\ call.op = "showState" /\ root # NullPtr =>
          /\ \A i \in DOMAIN out.tree : out.tree[i].pid \in Live
          /\ \A i, j \in DOMAIN out.tree : out.tree[i].pid = out.tree[j].pid => i = j

\* a report of a tree of two while the process created between them is gone
C17_Witness ==
    /\ call.op = "showState"
    /\ root = 1 /\ Live = {1, 3} /\ 2 \in Terminated
    /\ Len(out.tree) = 2 /\ out.tree[2].pid = 3

(***************************************************************************)
(* C18: the parent and child links of live processes agree both ways.      *)
(* Every entry of a live process p's child list is a live process whose    *)
(* parent reference is p, occurs in the list once, and the list is in      *)
(* creation order; every live process whose parent reference designates a  *)
(* live process p is in p's child list.                                    *)
(***************************************************************************)
C18_LinksAgree ==
    /\ \A p \in Live :
          LET cs == processMap[p].children IN
          /\ \A i \in DOMAIN cs :
                /\ cs[i] \in Live
                /\ processMap[cs[i]].parent = p
          /\ \A i, j \in DOMAIN cs : i < j =>
                \E m, n \in DOMAIN created :
                    m < n /\ created[m] = cs[i] /\ created[n] = cs[j]
    /\ \A c \in Live :
          processMap[c].parent \in Live =>
              Occurrences(processMap[processMap[c].parent].children, c) = 1

\* a second child was just created under a parent whose first child waits
\* for I/O: the parent has both, in the order they were created
C18_Witness ==
    /\ call.op = "createProcess" /\ call.pid = 1 /\ out.pid = 3
    /\ Live = {1, 2, 3}
    /\ processMap[1].children = <<2, 3>>
    /\ processMap[2].parent = 1 /\ processMap[3].parent = 1
    /\ ioQueue = <<2>>

(***************************************************************************)
(* C19: both queues are FIFO by time of entry.  Of two processes in the    *)
(* same queue, one is ahead of the other exactly when its most recent      *)
(* entry into that queue came first: each queue equals the record of its   *)
(* members by time of entry.  A process enters at the tail (createProcess  *)
(* and completeIO for the ready queue, requestIO for the I/O queue), and   *)
(* no step changes the order of two processes that both stay in a queue.   *)
(***************************************************************************)
\* a occurs before b in q
C19_Ahead(q, a, b) == \E i, j \in DOMAIN q : i < j /\ q[i] = a /\ q[j] = b

C19_OrderedByEntry ==
    /\ Range(readyQueue) = Range(entryOrder.ready)
    /\ Range(ioQueue) = Range(entryOrder.io)
    /\ \A a, b \in Range(readyQueue) :
          C19_Ahead(readyQueue, a, b) <=> C19_Ahead(entryOrder.ready, a, b)
    /\ \A a, b \in Range(ioQueue) :
          C19_Ahead(ioQueue, a, b) <=> C19_Ahead(entryOrder.io, a, b)

\* q became r: who stayed kept their order, who entered stands behind all
C19_QueueStep(q, r) ==
    /\ \A a, b \in Range(q) \cap Range(r) : C19_Ahead(q, a, b) <=> C19_Ahead(r, a, b)
    /\ \A a \in Range(r) \ Range(q) : \A b \in Range(r) : ~C19_Ahead(r, a, b)

C19_Entries ==
    /\ call'.op = "createProcess" =>
          out'.pid \in Range(readyQueue') \ Range(readyQueue)
    /\ call'.op = "completeIO" /\ out'.msg = MsgCompleted =>
          call'.pid \in Range(readyQueue') \ Range(readyQueue)
    /\ call'.op = "requestIO" /\ out'.msg = MsgMoved =>
          call'.pid \in Range(ioQueue') \ Range(ioQueue)

C19_StrictFIFO ==
    /\ []C19_OrderedByEntry
    /\ [][/\ C19_QueueStep(readyQueue, readyQueue')
          /\ C19_QueueStep(ioQueue, ioQueue')
          /\ C19_Entries]_vars

\* a process came back from I/O behind one created after it, and the first
\* of three was terminated: the two that stayed are in order of entry, which
\* is not the order of creation
C19_Witness ==
    /\ call.op = "terminateProcess" /\ out.msg = MsgTerminated
    /\ readyQueue = <<3, 2>>
    /\ entryOrder.ready = <<3, 2>>

(***************************************************************************)
(* C20: reachability from the root is never regained.  A live process that *)
(* is not reachable from the designated root by child lists is not         *)
(* reachable after any step either, whatever the operation; so it is in no *)
(* tree section of a later showState report, while it stays in its queue.  *)
(***************************************************************************)
\* the live processes reached from the designated root
C20_Reach == IF root = NullPtr THEN {} ELSE Followed(root) \cap Live

C20_StaysUnreachable ==
    \A p \in Live \cap DOMAIN processMap' : p \notin C20_Reach => p \notin C20_Reach'

C20_ReportShowsReachOnly ==
    call.op = "showState" /\ Running =>
        /\ {out.tree[i].pid : i \in DOMAIN out.tree} \cap Live = C20_Reach
        /\ Live \ C20_Reach \subseteq Range(readyQueue \o ioQueue)

C20_NeverRegained ==
    /\ []C20_ReportShowsReachOnly
    /\ [][C20_StaysUnreachable]_vars

\* the report after a new root was designated: the child of the terminated
\* first root is live and waits for I/O, and the tree is the new root alone
C20_Witness ==
    /\ call.op = "showState"
    /\ root = 3 /\ Live = {2, 3}
    /\ processMap[2].parent = 1
    /\ ioQueue = <<2>>
    /\ Len(out.tree) = 1 /\ out.tree[1].pid = 3

====
